---- MODULE Spec2Model ----
(***************************************************************************)
(* The completion client of src/model/openai.py (OpenAI.run, OpenAI.arun), *)
(* the message rendering of src/message/message.py that it uses, and the   *)
(* batch driver of src/run.py (process_data).                              *)
(*                                                                         *)
(* Python values are encoded as records of one shape so that any two of    *)
(* them can be compared: None is PyNone, a str is Str(<<characters>>).     *)
(* A Python index k is the TLA+ index k+1.                                 *)
(***************************************************************************)
EXTENDS Integers, Sequences, FiniteSets, TLC

(***************************************************************************)
(* Bounds of the model.                                                    *)
(***************************************************************************)
\* The number of attempts of arun's loop. The source sets max_retries = 1000
\* (src/model/openai.py:206); the loop is modelled for this smaller number.
max_retries == 3
\* The longest message list a caller passes to run / arun.
MaxMsgs == 2
\* The number of call slots of the client in the concurrent specification.
NumCalls == 3
\* The most data rows of the input file, and the most trials per row.
MaxRows == 2
MaxTrials == 2
\* The most images of a user message rendered for the providers.
MaxImages == 2

(***************************************************************************)
(* Python values and strings.                                              *)
(***************************************************************************)
PyNone == [t |-> "None", s |-> <<>>]
Str(chars) == [t |-> "str", s |-> chars]

\* `if self.content`: None and "" are falsy.
Truthy(v) == v.t = "str" /\ v.s # <<>>

\* f"{self.content}": None formats as the text None.
FormatStr(v) == IF v.t = "None" THEN <<"N", "o", "n", "e">> ELSE v.s

S_SayHello == <<"S", "a", "y", " ", "h", "e", "l", "l", "o">>
S_Hello == <<"H", "e", "l", "l", "o", "!">>
S_Ok == <<"o", "k">>
\* The backquote character, which a TLA+ string cannot hold.
BQ == "BACKQUOTE"
S_Fence == <<BQ, BQ, BQ>>
S_FencePython == S_Fence \o <<"p", "y", "t", "h", "o", "n">>
S_Code == <<"\n", "p", "r", "i", "n", "t", "(", "1", ")", "\n">>
S_Fenced == S_FencePython \o S_Code \o S_Fence

(***************************************************************************)
(* Messages (src/message/message.py).                                      *)
(***************************************************************************)
UserMessage(content, images, turn) ==
    [content |-> content, images |-> images, turn |-> turn, cls |-> "UserMessage"]

ModelMessage(content, turn) ==
    [content |-> content, images |-> <<>>, turn |-> turn, cls |-> "ModelMessage"]

SystemMessage(content, turn) ==
    [content |-> content, images |-> <<>>, turn |-> turn, cls |-> "SystemMessage"]

\* util.image.encode_image is not among the sources: a pure function from an
\* image reference to its base64 text that raises when the file cannot be read.
ReadableImages == {"a.png", "b.png"}

EncodeImage(image) ==
    IF image \in ReadableImages
    THEN [ok |-> TRUE, data |-> <<"base64", image>>, exc |-> "none"]
    ELSE [ok |-> FALSE, data |-> <<>>, exc |-> "FileNotFoundError"]

TextBlock(chars) == [type |-> "text", text |-> chars, url |-> <<>>]

ImageBlock(data) ==
    [type |-> "image_url", text |-> <<>>, url |-> <<"data:image/png;base64,">> \o data]

\* UserMessage.to_openai: the text block, then the image blocks.
UserToOpenAI(m) ==
    LET content_list == IF Truthy(m.content)
                        THEN <<TextBlock(FormatStr(m.content))>>
                        ELSE <<>>
        images_list == [k \in 1..Len(m.images) |->
                            ImageBlock(EncodeImage(m.images[k]).data)]
    IN  [role |-> "user", form |-> "list", text |-> <<>>,
         blocks |-> content_list \o images_list]

ModelToOpenAI(m) ==
    [role |-> "assistant", form |-> "str", text |-> FormatStr(m.content), blocks |-> <<>>]

SystemToOpenAI(m) ==
    [role |-> "system", form |-> "str", text |-> FormatStr(m.content), blocks |-> <<>>]

\* message.to_openai(), dispatched on the message's class.
ToOpenAI(m) ==
    CASE m.cls = "UserMessage" -> UserToOpenAI(m)
      [] m.cls = "ModelMessage" -> ModelToOpenAI(m)
      [] OTHER -> SystemToOpenAI(m)

\* to_openai raises when encode_image raises on one of the message's images.
ToOpenAIRaises(m) ==
    /\ m.cls = "UserMessage"
    /\ \E k \in 1..Len(m.images) : ~EncodeImage(m.images[k]).ok

(***************************************************************************)
(* The renderings for the other providers.                                 *)
(***************************************************************************)
\* {"text": self.content}
PartText(chars) == [type |-> "text", text |-> chars, url |-> <<>>]

\* {"inline_data": {"mime_type": "image/png", "data": encode_image(...)}}
InlineDataBlock(data) ==
    [type |-> "inline_data", text |-> <<>>, url |-> <<"image/png">> \o data]

\* {"type": "image", "source": {"type": "base64", "media_type": "image/png",
\*  "data": encode_image(...)}}
SourceBlock(data) ==
    [type |-> "image", text |-> <<>>, url |-> <<"base64", "image/png">> \o data]

\* UserMessage.to_deepmind: the image parts, then the text part.
UserToDeepmind(m) ==
    LET content_list == IF Truthy(m.content) THEN <<PartText(m.content.s)>> ELSE <<>>
        images_list == [k \in 1..Len(m.images) |->
                            InlineDataBlock(EncodeImage(m.images[k]).data)]
    IN  [role |-> "user", form |-> "parts", text |-> <<>>,
         blocks |-> images_list \o content_list]

\* UserMessage.to_anthropic with the text block before the image blocks (the
\* variant that keeps the order of to_openai).
UserToAnthropicTextFirst(m) ==
    LET content_list == IF Truthy(m.content)
                        THEN <<TextBlock(FormatStr(m.content))>>
                        ELSE <<>>
        images_list == [k \in 1..Len(m.images) |->
                            SourceBlock(EncodeImage(m.images[k]).data)]
    IN  [role |-> "user", form |-> "list", text |-> <<>>,
         blocks |-> content_list \o images_list]

\* UserMessage.to_anthropic: the image blocks, then the text block.
UserToAnthropic(m) ==
    LET content_list == IF Truthy(m.content)
                        THEN <<TextBlock(FormatStr(m.content))>>
                        ELSE <<>>
        images_list == [k \in 1..Len(m.images) |->
                            SourceBlock(EncodeImage(m.images[k]).data)]
    IN  [role |-> "user", form |-> "list", text |-> <<>>,
         blocks |-> images_list \o content_list]

\* ModelMessage.to_deepmind with the role token of the other two renderings
\* (the variant that copies "assistant").
ModelToDeepmindAssistant(m) ==
    [role |-> "assistant", form |-> "parts", text |-> <<>>,
     blocks |-> IF Truthy(m.content) THEN <<PartText(m.content.s)>> ELSE <<>>]

\* ModelMessage.to_deepmind
ModelToDeepmind(m) ==
    [role |-> "model", form |-> "parts", text |-> <<>>,
     blocks |-> IF Truthy(m.content) THEN <<PartText(m.content.s)>> ELSE <<>>]

\* ModelMessage.to_anthropic
ModelToAnthropic(m) ==
    [role |-> "assistant", form |-> "str", text |-> FormatStr(m.content), blocks |-> <<>>]

Providers == {"openai", "deepmind", "anthropic"}

NoPayload == [role |-> "none", form |-> "none", text |-> <<>>, blocks |-> <<>>]

\* message.to_<provider>(): SystemMessage has to_openai only, so the other
\* two calls raise AttributeError; a user message raises what encode_image
\* raises.
RenderFor(m, provider) ==
    IF m.cls = "SystemMessage" /\ provider # "openai"
    THEN [ok |-> FALSE, exc |-> "AttributeError", payload |-> NoPayload]
    ELSE IF ToOpenAIRaises(m)
    THEN [ok |-> FALSE, exc |-> "FileNotFoundError", payload |-> NoPayload]
    ELSE [ok |-> TRUE, exc |-> "none",
          payload |->
            CASE provider = "openai" -> ToOpenAI(m)
              [] provider = "deepmind" /\ m.cls = "UserMessage" -> UserToDeepmind(m)
              [] provider = "deepmind" -> ModelToDeepmind(m)
              [] provider = "anthropic" /\ m.cls = "UserMessage" -> UserToAnthropic(m)
              [] OTHER -> ModelToAnthropic(m)]

\* The messages of msgs, stably sorted by turn (used by no code of the
\* repository: the variant of RenderPayloads that re-sorts).
RECURSIVE InsertByTurn(_, _)
InsertByTurn(sorted, m) ==
    IF sorted = <<>> THEN <<m>>
    ELSE IF m.turn < Head(sorted).turn THEN <<m>> \o sorted
    ELSE <<Head(sorted)>> \o InsertByTurn(Tail(sorted), m)

RECURSIVE SortByTurn(_)
SortByTurn(msgs) ==
    IF msgs = <<>> THEN <<>>
    ELSE InsertByTurn(SortByTurn(SubSeq(msgs, 1, Len(msgs) - 1)), msgs[Len(msgs)])

RenderPayloadsSorted(msgs) ==
    [k \in 1..Len(msgs) |-> ToOpenAI(SortByTurn(msgs)[k])]

\* [message.to_openai() for message in messages]
RenderPayloads(msgs) ==
    [k \in 1..Len(msgs) |-> ToOpenAI(msgs[k])]

Render(msgs) ==
    IF \E k \in 1..Len(msgs) : ToOpenAIRaises(msgs[k])
    THEN [ok |-> FALSE, payloads |-> <<>>, exc |-> "FileNotFoundError"]
    ELSE [ok |-> TRUE, payloads |-> RenderPayloads(msgs), exc |-> "none"]

(***************************************************************************)
(* The client (src/model/openai.py).                                       *)
(***************************************************************************)
\* The parameters of OpenAI.__init__.
InitParams ==
    {"api_key", "frequency_penalty", "presence_penalty", "logit_bias", "logprobs",
     "top_logprobs", "max_tokens", "n", "seed", "stop", "temperature", "top_p",
     "calls_per_second"}

\* OpenAI.__init__ with its defaults, but for temperature and calls_per_second.
\* model is the class attribute: __init__ never sets it.
OpenAI_init(temperature, calls_per_second) ==
    [model |-> "gpt-4-turbo",
     frequency_penalty |-> "0.0", presence_penalty |-> "0.0",
     logit_bias |-> "None", logprobs |-> "False", top_logprobs |-> "None",
     max_tokens |-> "1000", n |-> "None", seed |-> "None", stop |-> "None",
     temperature |-> temperature, top_p |-> "1.0",
     calls_per_second |-> calls_per_second]

\* The default of calls_per_second.
DefaultCallsPerSecond == 5

\* OpenAI.__init__ called with further keyword arguments: the object holds
\* the given value for each of them.
Configure(cl, given) ==
    [k \in DOMAIN cl |-> IF k \in DOMAIN given THEN given[k] ELSE cl[k]]

\* OpenAI(api_key, temperature=0.2, seed=7, stop=["END"], n=2,
\*        logit_bias={"50256": -100}, logprobs=True, top_logprobs=2)
ConfiguredClient ==
    Configure(OpenAI_init("0.2", DefaultCallsPerSecond),
              [seed |-> "7", stop |-> "['END']", n |-> "2",
               logit_bias |-> "{'50256': -100}", logprobs |-> "True",
               top_logprobs |-> "2"])

\* The keyword arguments of chat.completions.create, in run and in arun.
Request(cl, payloads) ==
    [messages |-> payloads, model |-> cl.model,
     frequency_penalty |-> cl.frequency_penalty,
     presence_penalty |-> cl.presence_penalty,
     max_tokens |-> cl.max_tokens, seed |-> cl.seed,
     temperature |-> cl.temperature, top_p |-> cl.top_p]

\* What a call hands to its caller.
NoOutcome == [kind |-> "none", value |-> PyNone, exc |-> "none"]
Return(v) == [kind |-> "return", value |-> v, exc |-> "none"]
Raise(e) == [kind |-> "raise", value |-> PyNone, exc |-> e]

\* Log lines: the start of attempt k ("[A<k>] Running OpenAI Completion..."),
\* the start of a blocking run, an error, and the lines of a success.
LogAttempt(k) == [kind |-> "attempt", index |-> k, exc |-> "none"]
LogRunStart == [kind |-> "start", index |-> 0, exc |-> "none"]
LogError(e) == [kind |-> "error", index |-> 0, exc |-> e]
LogSuccess == [kind |-> "success", index |-> 0, exc |-> "none"]

\* The provider's reply to one request: an exception of the transport or of
\* the provider, or a completion object.
ExcKinds == {"RateLimitError", "APITimeoutError", "AuthenticationError"}

Contents == {PyNone, Str(<<>>), Str(S_Hello), Str(S_Ok), Str(S_Fenced)}

Choice(has_message, content) == [content |-> content, has_message |-> has_message]

WellFormed(content) == [choices |-> <<Choice(TRUE, content)>>, has_usage |-> TRUE]

Malformed ==
    { [choices |-> <<>>, has_usage |-> TRUE],
      [choices |-> <<Choice(FALSE, PyNone)>>, has_usage |-> TRUE],
      [choices |-> <<Choice(TRUE, Str(S_Hello))>>, has_usage |-> FALSE] }

Completions == {WellFormed(content) : content \in Contents} \cup Malformed

\* Reading the completion: choices[0] (IndexError on no choice),
\* .message.content (AttributeError on no message), usage.prompt_tokens
\* (AttributeError on no usage); the value is the first choice's content.
Parse(completion) ==
    IF completion.choices = <<>> THEN Raise("IndexError")
    ELSE IF ~completion.choices[1].has_message THEN Raise("AttributeError")
    ELSE IF ~completion.has_usage THEN Raise("AttributeError")
    ELSE Return(completion.choices[1].content)

\* The provider's reply to one request, as the call receives it.
RaisedReply(e) == [raises |-> TRUE, exc |-> e, completion |-> WellFormed(PyNone)]
ReturnedReply(completion) == [raises |-> FALSE, exc |-> "none", completion |-> completion]

\* The seconds of asyncio.sleep(1).
BackoffSeconds == 1

\* A call of run or arun: where it stands (pc), the caller's messages, their
\* rendering, the loop variable, the log lines written, the requests issued
\* (sent), the replies received, the seconds spent in asyncio.sleep (slept)
\* and what the caller gets.
IdleCall ==
    [pc |-> "idle", mode |-> "none", messages |-> <<>>, rendered |-> <<>>,
     attempt |-> 0, log |-> <<>>, sent |-> <<>>, replies |-> <<>>,
     slept |-> 0, outcome |-> NoOutcome]

\* The loop of arun never leaves on a completion (the variant of
\* ArunOnCompletion without its return).
ArunOnCompletionNoReturn(cs, completion) ==
    [cs EXCEPT !.pc = "sleeping", !.log = Append(@, LogSuccess),
               !.replies = Append(@, ReturnedReply(completion))]

\* The log line of attempt k carries the index k instead of k+1 (the variant
\* of StartAttempt that logs the loop variable as it is).
StartAttemptZeroBased(cl, cs, k) ==
    IF k < max_retries
    THEN [cs EXCEPT !.pc = "awaiting", !.attempt = k,
                    !.log = Append(@, LogAttempt(k)),
                    !.sent = Append(@, Request(cl, cs.rendered))]
    ELSE [cs EXCEPT !.pc = "done", !.outcome = Return(PyNone)]

\* One turn of `for attempt in range(max_retries)` with attempt = k, up to the
\* await of the request; past the last attempt the function ends without a
\* return statement, which hands None to the caller.
StartAttempt(cl, cs, k) ==
    IF k < max_retries
    THEN [cs EXCEPT !.pc = "awaiting", !.attempt = k,
                    !.log = Append(@, LogAttempt(k + 1)),
                    !.sent = Append(@, Request(cl, cs.rendered))]
    ELSE [cs EXCEPT !.pc = "done", !.outcome = Return(PyNone)]

\* arun with the rendering inside the try of the first attempt (the variant
\* that treats a failed rendering like a failed request).
ArunBeginRenderInTry(cl, msgs) ==
    LET r == Render(msgs)
        cs == [IdleCall EXCEPT !.mode = "arun", !.messages = msgs]
    IN  IF ~r.ok
        THEN [cs EXCEPT !.pc = "sleeping", !.log = <<LogError(r.exc)>>]
        ELSE StartAttempt(cl, [cs EXCEPT !.rendered = r.payloads], 0)

\* arun from its call to its first await: the messages are rendered once,
\* outside the try, and the first attempt starts.
ArunBegin(cl, msgs) ==
    LET r == Render(msgs)
        cs == [IdleCall EXCEPT !.mode = "arun", !.messages = msgs]
    IN  IF ~r.ok
        THEN [cs EXCEPT !.pc = "done", !.outcome = Raise(r.exc)]
        ELSE StartAttempt(cl, [cs EXCEPT !.rendered = r.payloads], 0)

\* except Exception without the wait: the error is logged and the loop goes
\* on to its next turn at once (the variant whose sleep is never awaited).
ArunOnExceptionNoBackoff(cs, e) ==
    LET failed == [cs EXCEPT !.log = Append(@, LogError(e)),
                             !.replies = Append(@, RaisedReply(e))]
    IN  IF cs.attempt + 1 < max_retries
        THEN [failed EXCEPT !.pc = "awaiting", !.attempt = cs.attempt + 1,
                            !.log = Append(@, LogAttempt(cs.attempt + 2)),
                            !.sent = Append(@, cs.sent[1])]
        ELSE [failed EXCEPT !.pc = "done", !.outcome = Return(PyNone)]

\* except with a kind that is not retried (the variant that lets an
\* authentication error through to the caller).
ArunOnExceptionAuthFatal(cs, e) ==
    IF e = "AuthenticationError"
    THEN [cs EXCEPT !.pc = "done", !.outcome = Raise(e),
                    !.replies = Append(@, RaisedReply(e))]
    ELSE [cs EXCEPT !.pc = "sleeping", !.log = Append(@, LogError(e)),
                    !.replies = Append(@, RaisedReply(e))]

\* except Exception: the error is logged and asyncio.sleep(1) awaited.
ArunOnException(cs, e) ==
    [cs EXCEPT !.pc = "sleeping", !.log = Append(@, LogError(e)),
               !.replies = Append(@, RaisedReply(e))]

\* The sleep is over; continue: the next turn of the loop.
ArunAfterSleep(cl, cs) ==
    StartAttempt(cl, [cs EXCEPT !.slept = @ + BackoffSeconds], cs.attempt + 1)

\* The request returned a completion: it is read after the try statement, so
\* what reading raises leaves arun; otherwise the content is logged and
\* returned.
ArunOnCompletion(cs, completion) ==
    LET p == Parse(completion)
        got == [cs EXCEPT !.pc = "done", !.outcome = p,
                          !.replies = Append(@, ReturnedReply(completion))]
    IN  IF p.kind = "raise"
        THEN got
        ELSE [got EXCEPT !.log = Append(@, LogSuccess)]

\* The provider's reply to the one request of a blocking run.
Replies ==
    {RaisedReply(e) : e \in ExcKinds} \cup {ReturnedReply(c) : c \in Completions}

\* run: rendering and the request are inside the try, whose handler logs
\* "429 Resource Exhausted" and returns (None); the completion is read after
\* the try statement.
RunCall(cl, msgs, reply) ==
    LET r == Render(msgs)
        cs == [IdleCall EXCEPT !.mode = "run", !.messages = msgs, !.pc = "done"]
        asked == [cs EXCEPT !.rendered = r.payloads,
                            !.sent = <<Request(cl, r.payloads)>>,
                            !.replies = <<reply>>,
                            !.log = <<LogRunStart>>]
        p == Parse(reply.completion)
    IN  IF ~r.ok
        THEN [cs EXCEPT !.log = <<LogError("429 Resource Exhausted")>>,
                        !.outcome = Return(PyNone)]
        ELSE IF reply.raises
        THEN [asked EXCEPT !.log = Append(@, LogError("429 Resource Exhausted")),
                           !.outcome = Return(PyNone)]
        ELSE IF p.kind = "raise"
        THEN [asked EXCEPT !.outcome = p]
        ELSE [asked EXCEPT !.log = Append(@, LogSuccess), !.outcome = p]

(***************************************************************************)
(* The batch driver (src/run.py).                                          *)
(***************************************************************************)
\* str.replace(old, new), old not empty: every occurrence, left to right.
RECURSIVE Replace(_, _, _)
Replace(s, old, new) ==
    IF Len(s) < Len(old) THEN s
    ELSE IF SubSeq(s, 1, Len(old)) = old
         THEN new \o Replace(SubSeq(s, Len(old) + 1, Len(s)), old, new)
         ELSE <<Head(s)>> \o Replace(Tail(s), old, new)

\* str.split(sep), sep not empty: the parts between the occurrences of sep;
\* cur is the part being read.
RECURSIVE SplitFrom(_, _, _)
SplitFrom(s, sep, cur) ==
    IF Len(s) < Len(sep) THEN <<cur \o s>>
    ELSE IF SubSeq(s, 1, Len(sep)) = sep
         THEN <<cur>> \o SplitFrom(SubSeq(s, Len(sep) + 1, Len(s)), sep, <<>>)
         ELSE SplitFrom(Tail(s), sep, Append(cur, Head(s)))

Split(s, sep) == SplitFrom(s, sep, <<>>)

\* `response, completion = value`: None cannot be iterated, and a str gives
\* its characters, which must be two.
Unpack2(v) ==
    IF v.t = "None"
    THEN [ok |-> FALSE, exc |-> "TypeError", first |-> PyNone, second |-> PyNone]
    ELSE IF Len(v.s) # 2
    THEN [ok |-> FALSE, exc |-> "ValueError", first |-> PyNone, second |-> PyNone]
    ELSE [ok |-> TRUE, exc |-> "none", first |-> Str(<<v.s[1]>>), second |-> Str(<<v.s[2]>>)]

\* The lines of process_data between the return of arun and new_row: the
\* unpacking, response.replace("```python", "```") and
\* response.split("```")[1].
ExtractResponse(outcome) ==
    LET u == Unpack2(outcome.value)
        parts == Split(Replace(u.first.s, S_FencePython, S_Fence), S_Fence)
    IN  IF outcome.kind = "raise"
        THEN [ok |-> FALSE, exc |-> outcome.exc, response |-> PyNone, completion |-> PyNone]
        ELSE IF ~u.ok
        THEN [ok |-> FALSE, exc |-> u.exc, response |-> PyNone, completion |-> PyNone]
        ELSE IF Len(parts) < 2
        THEN [ok |-> FALSE, exc |-> "IndexError", response |-> PyNone, completion |-> PyNone]
        ELSE [ok |-> TRUE, exc |-> "none", response |-> Str(parts[2]), completion |-> u.second]

\* The keyword arguments of the constructor call of process_data.
CtorKwargs == {"api_key", "model", "temperature"}

Digits == <<"0", "1", "2", "3", "4", "5", "6", "7", "8", "9">>

\* The input file: a header and data rows of nine columns, the prompt in
\* column 3.
Column(i, k) ==
    IF k = 3 THEN Str(S_SayHello \o <<" ", Digits[i + 1]>>)
    ELSE Str(<<"r", Digits[i + 1], "c", Digits[k + 1]>>)

InputRow(i) == [k \in 1..9 |-> Column(i, k - 1)]

InputData(nrows) == <<InputRow(0)>> \o [i \in 1..nrows |-> InputRow(i)]

OutputHeader ==
    <<Str(<<"model_response">>), Str(<<"class_id">>), Str(<<"created">>),
      Str(<<"prompt">>), Str(<<"question_id">>), Str(<<"stderr">>),
      Str(<<"stdout">>), Str(<<"user_email">>), Str(<<"user_ip">>),
      Str(<<"completion_object">>), Str(<<"trial_id">>)>>

\* new_row: row is data[i], whose Python column k is row[k + 1].
NewRow(response, completion, row, trial) ==
    <<response, row[2], row[3], row[4], row[5], row[6], row[7], row[8], row[9],
      completion, trial>>

NoLimit == [t |-> "None", n |-> 0]
Limit(n) == [t |-> "int", n |-> n]

\* process_data before its call.
PDIdle(kwargs, nrows, limit, trials) ==
    [pc |-> "start", kwargs |-> kwargs, data |-> InputData(nrows), limit |-> limit,
     trials |-> trials, i |-> 0, trial |-> 0, new_data |-> <<>>,
     output |-> [written |-> FALSE, rows |-> <<>>, writes |-> 0], exc |-> "none",
     trial_log |-> <<>>]

\* The loops of process_data from the point where row i and trial `trial`
\* are next: the rows past the limit or past the end of data end the loop and
\* the output is written; otherwise arun is called for the row's prompt and
\* runs on to its first await. Gives the state of process_data and of the call.
RECURSIVE PDSeek(_, _, _, _)
PDSeek(p, cl, i, trial) ==
    IF i > Len(p.data) - 1 \/ (p.limit.t = "int" /\ i > p.limit.n)
    THEN [pd |-> [p EXCEPT !.pc = "done", !.i = i, !.trial = trial,
                           !.output = [written |-> TRUE, rows |-> p.new_data,
                                       writes |-> p.output.writes + 1]],
          call |-> IdleCall]
    ELSE IF trial > p.trials
    THEN PDSeek(p, cl, i + 1, 1)
    ELSE [pd |-> [p EXCEPT !.pc = "awaiting", !.i = i, !.trial = trial],
          call |-> ArunBegin(cl, <<UserMessage(p.data[i + 1][4], <<>>, 0)>>)]

\* process_data from its call: the constructor call raises TypeError on a
\* keyword that OpenAI.__init__ does not take; otherwise the data is read,
\* new_data gets the header and the loops start.
PDBegin(p) ==
    IF ~(p.kwargs \subseteq InitParams)
    THEN [pd |-> [p EXCEPT !.pc = "raised", !.exc = "TypeError"],
          call |-> IdleCall,
          built |-> FALSE]
    ELSE [pd |-> PDSeek([p EXCEPT !.new_data = <<OutputHeader>>],
                        OpenAI_init("0.2", DefaultCallsPerSecond), 1, 1).pd,
          call |-> PDSeek([p EXCEPT !.new_data = <<OutputHeader>>],
                          OpenAI_init("0.2", DefaultCallsPerSecond), 1, 1).call,
          built |-> TRUE]

\* process_data writing what it has when a trial raises (the variant with the
\* write in a finally clause).
PDAfterArunWritesPartial(p, cl, cs) ==
    LET x == ExtractResponse(cs.outcome)
        seen == [p EXCEPT !.trial_log =
                    Append(@, [row |-> p.i, trial |-> p.trial, call |-> cs])]
    IN  IF ~x.ok
        THEN [pd |-> [seen EXCEPT !.pc = "raised", !.exc = x.exc,
                                  !.output = [written |-> TRUE, rows |-> p.new_data,
                                              writes |-> p.output.writes + 1]],
              call |-> IdleCall]
        ELSE PDSeek([seen EXCEPT !.new_data =
                        Append(@, NewRow(x.response, x.completion,
                                         p.data[p.i + 1], p.trial))],
                    cl, p.i, p.trial + 1)

\* process_data once the awaited arun is over: whatever arun or the handling
\* of its result raises leaves process_data; otherwise the row is appended
\* and the loops go on.
PDAfterArun(p, cl, cs) ==
    LET x == ExtractResponse(cs.outcome)
        seen == [p EXCEPT !.trial_log =
                    Append(@, [row |-> p.i, trial |-> p.trial, call |-> cs])]
    IN  IF ~x.ok
        THEN [pd |-> [seen EXCEPT !.pc = "raised", !.exc = x.exc], call |-> IdleCall]
        ELSE PDSeek([seen EXCEPT !.new_data =
                        Append(@, NewRow(x.response, x.completion,
                                         p.data[p.i + 1], p.trial))],
                    cl, p.i, p.trial + 1)

(***************************************************************************)
(* State.                                                                  *)
(***************************************************************************)
VARIABLES
    client,     \* the OpenAI object
    calls,      \* the calls of run / arun on it, by call slot
    pd,         \* process_data: its arguments, locals and output file
    shown       \* the last rendering of a message for a provider, and a
                \* summary of the one before it

vars == <<client, calls, pd, shown>>

Calls == 1..NumCalls

\* The messages callers pass. Turns are not in list order, and one image
\* reference cannot be read.
Messages ==
    { UserMessage(Str(S_SayHello), <<>>, 1),
      UserMessage(Str(S_SayHello), <<"a.png">>, 0),
      UserMessage(PyNone, <<"missing.png">>, 0),
      ModelMessage(Str(S_Hello), 0),
      SystemMessage(Str(S_Ok), 2) }

RECURSIVE SeqsUpTo(_, _)
SeqsUpTo(S, n) ==
    IF n = 0 THEN {<<>>}
    ELSE LET shorter == SeqsUpTo(S, n - 1)
         IN  shorter \cup {Append(q, x) : q \in shorter, x \in S}

MessageLists == SeqsUpTo(Messages, MaxMsgs)

\* No rendering yet.
NoRendering ==
    [message |-> SystemMessage(PyNone, 0), provider |-> "none",
     result |-> [ok |-> FALSE, exc |-> "none", payload |-> NoPayload]]

\* What is kept of the rendering before the last one: the class of the
\* message, the provider, and the role token of the payload.
Summary(r) ==
    [cls |-> r.message.cls, provider |-> r.provider, ok |-> r.result.ok,
     role |-> r.result.payload.role]

NothingShown == [last |-> NoRendering, prev |-> Summary(NoRendering)]

\* The messages rendered for the providers: user messages with and without
\* text and with up to MaxImages images, one of which cannot be read; model
\* and system messages.
ImageRefs == {"a.png", "b.png", "missing.png"}

RenderInputs ==
    {UserMessage(content, images, 0) :
        content \in {PyNone, Str(S_Hello)}, images \in SeqsUpTo(ImageRefs, MaxImages)}
    \cup {ModelMessage(content, 0) : content \in {Str(<<>>), Str(S_Hello)}}
    \cup {SystemMessage(Str(S_Ok), 0)}

(***************************************************************************)
(* Actions.                                                                *)
(***************************************************************************)
\* A caller renders a message for a provider.
RenderMessage(m, provider) ==
    /\ shown' = [last |-> [message |-> m, provider |-> provider,
                           result |-> RenderFor(m, provider)],
                 prev |-> Summary(shown.last)]
    /\ UNCHANGED <<client, calls, pd>>

\* A caller calls arun(messages).
ArunInvoke(c, msgs) ==
    /\ calls[c].pc = "idle"
    /\ calls' = [calls EXCEPT ![c] = ArunBegin(client, msgs)]
    /\ UNCHANGED <<client, pd, shown>>

\* The awaited request raises.
ProviderRaises(c, e) ==
    /\ calls[c].pc = "awaiting"
    /\ calls' = [calls EXCEPT ![c] = ArunOnException(@, e)]
    /\ UNCHANGED <<client, pd, shown>>

\* The awaited request returns a completion.
ProviderReturns(c, completion) ==
    /\ calls[c].pc = "awaiting"
    /\ calls' = [calls EXCEPT ![c] = ArunOnCompletion(@, completion)]
    /\ UNCHANGED <<client, pd, shown>>

\* asyncio.sleep(1) is over.
BackoffElapsed(c) ==
    /\ calls[c].pc = "sleeping"
    /\ calls' = [calls EXCEPT ![c] = ArunAfterSleep(client, @)]
    /\ UNCHANGED <<client, pd, shown>>

\* A caller calls run(messages): it blocks the thread until it has returned.
Run(c, msgs, reply) ==
    /\ calls[c].pc = "idle"
    /\ calls' = [calls EXCEPT ![c] = RunCall(client, msgs, reply)]
    /\ UNCHANGED <<client, pd, shown>>

(***************************************************************************)
(* One call of run or arun, on a client built with the defaults or with    *)
(* every optional tunable given.                                           *)
(***************************************************************************)
Init ==
    /\ client \in {OpenAI_init("1.0", DefaultCallsPerSecond), ConfiguredClient}
    /\ calls = [c \in Calls |-> IdleCall]
    /\ pd = PDIdle(CtorKwargs, 0, NoLimit, 1)
    /\ shown = NothingShown

Next ==
    \/ \E msgs \in MessageLists : ArunInvoke(1, msgs)
    \/ \E e \in ExcKinds : ProviderRaises(1, e)
    \/ \E completion \in Completions : ProviderReturns(1, completion)
    \/ BackoffElapsed(1)
    \/ \E msgs \in MessageLists, reply \in Replies : Run(1, msgs, reply)

Spec == Init /\ [][Next]_vars

(***************************************************************************)
(* Concurrent calls of arun on one client, built with a calls_per_second   *)
(* of 1 or of the default.                                                 *)
(***************************************************************************)
InitConc ==
    /\ client \in {OpenAI_init("1.0", cps) : cps \in {1, DefaultCallsPerSecond}}
    /\ calls = [c \in Calls |-> IdleCall]
    /\ pd = PDIdle(CtorKwargs, 0, NoLimit, 1)
    /\ shown = NothingShown

NextConc ==
    \E c \in Calls :
        \/ ArunInvoke(c, <<UserMessage(Str(S_SayHello), <<>>, 0)>>)
        \/ ProviderRaises(c, "RateLimitError")
        \/ ProviderReturns(c, WellFormed(Str(S_Hello)))
        \/ BackoffElapsed(c)

SpecConc == InitConc /\ [][NextConc]_vars

(***************************************************************************)
(* Renderings of messages for the three providers.                         *)
(***************************************************************************)
NextRender ==
    \E m \in RenderInputs, provider \in Providers : RenderMessage(m, provider)

SpecRender == Init /\ [][NextRender]_vars

(***************************************************************************)
(* process_data. No client exists before it builds one. Its constructor    *)
(* call raises with the keywords as written (CtorKwargs); the loops are     *)
(* explored as well for the call without the keyword __init__ does not     *)
(* take.                                                                   *)
(***************************************************************************)
NoClient == [OpenAI_init("unbuilt", 0) EXCEPT !.model = "unbuilt"]

\* process_data is called.
PDStart ==
    /\ pd.pc = "start"
    /\ pd' = PDBegin(pd).pd
    /\ calls' = [calls EXCEPT ![1] = PDBegin(pd).call]
    /\ client' = IF PDBegin(pd).built
                 THEN OpenAI_init("0.2", DefaultCallsPerSecond)
                 ELSE client
    /\ UNCHANGED shown

\* The arun that process_data awaits is over.
PDResume ==
    /\ pd.pc = "awaiting"
    /\ calls[1].pc = "done"
    /\ pd' = PDAfterArun(pd, client, calls[1]).pd
    /\ calls' = [calls EXCEPT ![1] = PDAfterArun(pd, client, calls[1]).call]
    /\ UNCHANGED <<client, shown>>

InitBatch ==
    /\ client = NoClient
    /\ calls = [c \in Calls |-> IdleCall]
    /\ shown = NothingShown
    /\ pd \in {PDIdle(kwargs, nrows, limit, trials) :
                  kwargs \in {CtorKwargs, CtorKwargs \ {"model"}},
                  nrows \in 0..MaxRows,
                  limit \in {NoLimit} \cup {Limit(n) : n \in 1..MaxRows},
                  trials \in 1..MaxTrials}

NextBatch ==
    \/ PDStart
    \/ PDResume
    \/ \E e \in ExcKinds : ProviderRaises(1, e)
    \/ \E completion \in Completions : ProviderReturns(1, completion)
    \/ BackoffElapsed(1)

SpecBatch == InitBatch /\ [][NextBatch]_vars

(***************************************************************************)
(* What the claims speak of.                                               *)
(***************************************************************************)
\* The number of requests a call has issued to the provider.
Attempts(cs) == Len(cs.sent)

\* The indices of the attempt lines of a log, in the order written.
RECURSIVE AttemptIndices(_)
AttemptIndices(log) ==
    IF log = <<>> THEN <<>>
    ELSE IF Head(log).kind = "attempt"
         THEN <<Head(log).index>> \o AttemptIndices(Tail(log))
         ELSE AttemptIndices(Tail(log))

\* A response object with a choice, its message and its usage present.
IsWellFormed(completion) ==
    /\ completion.choices # <<>>
    /\ completion.choices[1].has_message
    /\ completion.has_usage

\* The first k replies of the call are failures of the provider call.
FirstFailed(cs, k) == \A j \in 1..k : cs.replies[j].raises

\* Every attempt of the call has been answered, each by a failure.
FailedThroughout(cs) ==
    /\ cs.mode = "arun"
    /\ cs.replies # <<>>
    /\ FirstFailed(cs, Len(cs.replies))

\* The call failed k times and then got a well-formed completion.
SucceededAfter(cs, k) ==
    /\ cs.mode = "arun"
    /\ Len(cs.replies) = k + 1
    /\ FirstFailed(cs, k)
    /\ ~cs.replies[k + 1].raises
    /\ IsWellFormed(cs.replies[k + 1].completion)

\* The last reply of the call is a completion that is not well formed.
LastMalformed(cs) ==
    /\ cs.replies # <<>>
    /\ ~cs.replies[Len(cs.replies)].raises
    /\ ~IsWellFormed(cs.replies[Len(cs.replies)].completion)

\* What arun hands to its caller on a well-formed completion.
SuccessOutcomes == {Return(content) : content \in Contents}

\* An outcome no caller can take for a success: not one a successful
\* completion gives, and not an absent or empty text.
IsExplicitFailure(o) ==
    /\ o \notin SuccessOutcomes
    /\ ~(o.kind = "return" /\ ~Truthy(o.value))

\* C1: when the provider call of an arun fails on every attempt, arun ends after
\* exactly max_retries attempts and hands its caller an explicit failure.
C1_AlwaysFailingEndsInExplicitFailure ==
    \A c \in Calls :
        (FailedThroughout(calls[c]) /\ calls[c].pc = "done")
            => /\ Attempts(calls[c]) = max_retries
               /\ IsExplicitFailure(calls[c].outcome)

\* The attempts of an always failing call alone: never more than max_retries
\* requests, and exactly max_retries when the call has ended.
AlwaysFailingAttemptCount ==
    \A c \in Calls :
        calls[c].mode = "arun"
            => /\ Attempts(calls[c]) <= max_retries
               /\ (FailedThroughout(calls[c]) /\ calls[c].pc = "done")
                      => Attempts(calls[c]) = max_retries

\* C2: what arun hands to its caller once all retries are used up is an
\* explicit failure signal, distinguishable from every value of a success and
\* never an absent or empty text.
C2_ExhaustionIsDistinguishable ==
    \A c \in Calls :
        (FailedThroughout(calls[c]) /\ Attempts(calls[c]) = max_retries
            /\ calls[c].pc = "done")
            => IsExplicitFailure(calls[c].outcome)

\* C3: when the provider call fails exactly k times and then succeeds
\* (k < max_retries), arun returns the text of that completion, k+1 attempts
\* have been made and logged, and no request follows the successful one.
C3_SuccessAfterKFailures ==
    \A c \in Calls : \A k \in 0..(max_retries - 1) :
        SucceededAfter(calls[c], k)
            => /\ calls[c].pc = "done"
               /\ calls[c].outcome =
                      Return(calls[c].replies[k + 1].completion.choices[1].content)
               /\ Attempts(calls[c]) = k + 1
               /\ Len(AttemptIndices(calls[c].log)) = k + 1

C3_Witness ==
    \E c \in Calls :
        /\ SucceededAfter(calls[c], 2)
        /\ calls[c].outcome = Return(Str(S_Hello))

\* C4: a malformed response received by arun while attempts remain is a
\* transient failure: the call goes on to a further attempt, and nothing is
\* raised to the caller of arun.
C4_MalformedResponseIsRetried ==
    \A c \in Calls :
        (calls[c].mode = "arun" /\ LastMalformed(calls[c])
            /\ Len(calls[c].replies) < max_retries)
            => /\ calls[c].pc # "done"
               /\ calls[c].outcome.kind # "raise"

\* C8: a blocking run issues at most one request, and on any failure (of
\* rendering, of the request, of reading the response) it logs the failure and
\* returns an empty result instead of raising.
RunFailed(cs) ==
    \/ ~Render(cs.messages).ok
    \/ \E j \in 1..Len(cs.replies) :
           cs.replies[j].raises \/ ~IsWellFormed(cs.replies[j].completion)

C8_RunReturnsOnEveryFailure ==
    \A c \in Calls :
        calls[c].mode = "run"
            => /\ Attempts(calls[c]) <= 1
               /\ calls[c].outcome.kind = "return"
               /\ RunFailed(calls[c])
                      => /\ calls[c].outcome = Return(PyNone)
                         /\ \E j \in 1..Len(calls[c].log) :
                                calls[c].log[j].kind = "error"

\* C9: the attempts of an arun are logged with the indices 1, 2, ..., one line
\* per attempt made, whether the attempt fails or succeeds.
C9_AttemptIndicesCountUp ==
    \A c \in Calls :
        calls[c].mode = "arun"
            => AttemptIndices(calls[c].log) = [k \in 1..Attempts(calls[c]) |-> k]

C9_Witness ==
    \E c \in Calls :
        /\ SucceededAfter(calls[c], 2)
        /\ AttemptIndices(calls[c].log) = <<1, 2, 3>>

\* C10: every request of run and arun carries one payload per message of the
\* caller's list, in the order of that list whatever the turns, and every
\* retry sends the same list.
C10_RequestKeepsMessageOrder ==
    \A c \in Calls : \A j \in 1..Len(calls[c].sent) :
        /\ Len(calls[c].sent[j].messages) = Len(calls[c].messages)
        /\ \A k \in 1..Len(calls[c].messages) :
               calls[c].sent[j].messages[k] = ToOpenAI(calls[c].messages[k])

C10_Witness ==
    \E c \in Calls :
        /\ calls[c].mode = "arun"
        /\ Len(calls[c].sent) >= 2
        /\ Len(calls[c].messages) = 2
        /\ calls[c].messages[1].turn > calls[c].messages[2].turn
        /\ calls[c].sent[2].messages[1].role = "system"

\* C5: with a client configured for at most calls_per_second calls, no more
\* than that many calls of arun await the transport at the same time, and a
\* call beyond the limit is suspended, not failed.
AwaitingTransport == {c \in Calls : calls[c].pc = "awaiting"}

C5_AdmissionIsBounded ==
    /\ Cardinality(AwaitingTransport) <= client.calls_per_second
    /\ \A c \in Calls :
           (calls[c].mode = "arun" /\ calls[c].replies = <<>>)
               => calls[c].outcome.kind = "none"

\* C6: a trial of process_data that fails (arun used up its retries or raised,
\* or handling its result raised) does not end the batch: a row is recorded
\* for the trial and process_data goes on.
TrialFailed(entry) ==
    \/ entry.call.outcome.kind = "raise"
    \/ FailedThroughout(entry.call)
    \/ ~ExtractResponse(entry.call.outcome).ok

SelectedRows ==
    IF pd.limit.t = "int" /\ pd.limit.n < Len(pd.data) - 1
    THEN pd.limit.n
    ELSE Len(pd.data) - 1

HelloOnFirstAttempt(entry) ==
    /\ SucceededAfter(entry.call, 0)
    /\ entry.call.replies[1].completion.choices[1].content = Str(S_Hello)

C7_EveryTrialGivesItsRow ==
    (/\ pd.pc \in {"done", "raised"}
     /\ SelectedRows >= 1
     /\ \A j \in 1..Len(pd.trial_log) : HelloOnFirstAttempt(pd.trial_log[j]))
        => /\ pd.pc = "done"
           /\ pd.output.written
           /\ Len(pd.output.rows) = 1 + SelectedRows * pd.trials
           /\ \A i \in 1..SelectedRows : \A trial \in 1..pd.trials :
                  LET out == pd.output.rows[1 + (i - 1) * pd.trials + trial]
                  IN  /\ out[1] = Str(S_Hello)
                      /\ \A k \in 2..9 : out[k] = pd.data[i + 1][k]
                      /\ out[11] = trial

\* With the keywords of its constructor call as written, process_data ends in
\* the constructor's TypeError and never reaches its loops.
ProcessDataAsWritten ==
    pd.kwargs = CtorKwargs => pd.pc \in {"start", "raised"}

\* Whatever the provider returns, no data row is appended: a text of two
\* characters is the only one that unpacks, and it holds no fence.
BatchNeverRecordsARow ==
    Len(pd.new_data) <= 1 /\ Len(pd.output.rows) <= 1

(***************************************************************************)
(* The renderings for the three providers (SpecRender).                    *)
(***************************************************************************)
\* The image a block carries: its data ends with what encode_image gave.
ImageOfBlock(b) == b.url[Len(b.url)]

\* A rendering that went through, of a user message with a text and images.
TextAndImages(r) ==
    /\ r.message.cls = "UserMessage"
    /\ Truthy(r.message.content)
    /\ Len(r.message.images) >= 1
    /\ r.result.ok

\* C11: a user message with both a text and images renders for OpenAI as the
\* text block followed by the image blocks, and for DeepMind and Anthropic as
\* the image blocks followed by the text; in all three the image blocks are in
\* the order of the message's images list.
C11_TextAndImageBlockOrder ==
    LET r == shown.last
        m == r.message
        n == Len(m.images)
        blocks == r.result.payload.blocks
        first == IF r.provider = "openai" THEN 1 ELSE 0
    IN  TextAndImages(r) =>
            /\ Len(blocks) = n + 1
            /\ LET text == blocks[IF r.provider = "openai" THEN 1 ELSE n + 1]
               IN  text.type = "text" /\ text.text = m.content.s
            /\ \A k \in 1..n :
                  /\ blocks[first + k].type # "text"
                  /\ ImageOfBlock(blocks[first + k]) = m.images[k]

C11_Witness ==
    /\ TextAndImages(shown.last)
    /\ shown.last.provider = "anthropic"
    /\ shown.last.message.images = <<"b.png", "a.png">>
    /\ shown.prev.provider = "openai"
    /\ shown.prev.ok

\* The core role of a message class.
CoreRole(cls) ==
    CASE cls = "UserMessage" -> "user"
      [] cls = "ModelMessage" -> "model"
      [] OTHER -> "system"

\* The role tokens a provider's message list accepts.
ProviderRoles(provider) ==
    CASE provider = "openai" -> {"user", "assistant", "system"}
      [] provider = "deepmind" -> {"user", "model"}
      [] OTHER -> {"user", "assistant"}

\* The role token of a core role for a provider: model is "assistant" for OpenAI and
\* Anthropic and "model" for DeepMind; the others keep their name.
RoleToken(provider, role) ==
    IF role = "model" /\ provider # "deepmind" THEN "assistant" ELSE role

\* C12: for every provider the core roles the provider supports map one-to-one
\* onto the provider's role tokens (model to "assistant" for OpenAI and
\* Anthropic, to "model" for DeepMind): every message of a supported role
\* renders, with its token; two renderings for one provider carry the same
\* token exactly when their messages have the same role; every token of the
\* provider is the rendering of some message; and no payload carries a token
\* the provider does not support.
C12_RoleMappingIsBijective ==
    LET r == shown.last
        token == r.result.payload.role
    IN  /\ r.result.ok =>
            /\ token = RoleToken(r.provider, CoreRole(r.message.cls))
            /\ token \in ProviderRoles(r.provider)
        /\ (/\ r.provider \in Providers
            /\ RoleToken(r.provider, CoreRole(r.message.cls)) \in ProviderRoles(r.provider)
            /\ ~ToOpenAIRaises(r.message)) => r.result.ok
        /\ (r.result.ok /\ shown.prev.ok /\ shown.prev.provider = r.provider) =>
            (token = shown.prev.role <=> r.message.cls = shown.prev.cls)
        /\ \A provider \in Providers : \A tok \in ProviderRoles(provider) :
              \E m \in RenderInputs :
                  /\ RenderFor(m, provider).ok
                  /\ RenderFor(m, provider).payload.role = tok

C12_Witness ==
    /\ shown.last.result.ok
    /\ shown.last.provider = "deepmind"
    /\ shown.last.message.cls = "ModelMessage"
    /\ shown.last.result.payload.role = "model"
    /\ shown.prev.ok
    /\ shown.prev.provider = "deepmind"
    /\ shown.prev.cls = "UserMessage"

(***************************************************************************)
(* The generation tunables of a request (Spec).                            *)
(***************************************************************************)
\* The generation tunables of a client; the provider's chat completion call takes
\* every one of them.
Tunables ==
    {"temperature", "top_p", "frequency_penalty", "presence_penalty",
     "max_tokens", "seed", "stop", "logit_bias", "n", "logprobs"}

\* A tunable is configured when the object holds a value for it other than
\* the provider's own default.
IsConfigured(t) == client[t] \notin {"None", "False"}

\* The tunables that the requests do carry have the values of construction.
SentTunablesKeepTheirValues ==
    \A c \in Calls : \A j \in 1..Len(calls[c].sent) :
        \A t \in Tunables \cap DOMAIN calls[c].sent[j] :
            calls[c].sent[j][t] = client[t]

\* C13: every request of run and of arun carries each configured generation
\* tunable that the provider supports (temperature, top-p, the two penalties,
\* max output tokens, seed, stop sequences, logit bias, n, log-probabilities)
\* with the value given at construction.
C13_RequestCarriesEveryTunable ==
    \A c \in Calls : \A j \in 1..Len(calls[c].sent) :
        \A t \in Tunables :
            IsConfigured(t) =>
                /\ t \in DOMAIN calls[c].sent[j]
                /\ calls[c].sent[j][t] = client[t]

(***************************************************************************)
(* The code-fence extraction of process_data (SpecBatch).                  *)
(***************************************************************************)
\* The pieces of a response around its fences, the python fence counting as
\* a fence.
FencePieces(chars) == Split(Replace(chars, S_FencePython, S_Fence), S_Fence)

\* A trial whose call handed a text to process_data.
GaveText(entry) ==
    /\ entry.call.outcome.kind = "return"
    /\ entry.call.outcome.value.t = "str"

\* The response handed to process_data in a trial.
TextOf(entry) == entry.call.outcome.value.s

FencedExampleExtracts == FencePieces(S_Fenced)[2] = S_Code

(***************************************************************************)
(* The backoff of arun (Spec).                                             *)
(***************************************************************************)
\* The replies of the call that are exceptions of the provider call.
RaisedCount(cs) == Cardinality({j \in 1..Len(cs.replies) : cs.replies[j].raises})

\* Failure j of the call is logged, with its kind, right after the line of
\* attempt j and before anything else.
FailureIsLogged(cs, j) ==
    /\ Len(cs.log) >= 2 * j
    /\ cs.log[2 * j - 1] = LogAttempt(j)
    /\ cs.log[2 * j] = LogError(cs.replies[j].exc)

\* Where a call of arun stands after its failures: every failure is logged;
\* each failure but one still being waited for has had its second of backoff;
\* the attempts started are the first and one per completed backoff, and the
\* loop variable has counted them.
BackoffFollowsEveryFailure(cs) ==
    LET waited == RaisedCount(cs) - (IF cs.pc = "sleeping" THEN 1 ELSE 0)
    IN  /\ \A j \in 1..Len(cs.replies) : cs.replies[j].raises => FailureIsLogged(cs, j)
        /\ cs.slept = BackoffSeconds * waited
        /\ cs.pc = "sleeping" => /\ cs.replies[Len(cs.replies)].raises
                                 /\ Attempts(cs) = Len(cs.replies)
        /\ cs.pc = "awaiting" => /\ Attempts(cs) = waited + 1
                                 /\ cs.attempt = waited
                                 /\ cs.log[Len(cs.log)] = LogAttempt(waited + 1)

\* A step that starts a further attempt of a call leaves a completed backoff:
\* the call was sleeping, the second is added, the counter goes up by one.
AttemptStartsAfterBackoff(c) ==
    (/\ calls[c].mode = "arun"
     /\ Attempts(calls[c]) >= 1
     /\ Attempts(calls'[c]) > Attempts(calls[c]))
        => /\ calls[c].pc = "sleeping"
           /\ calls'[c].slept = calls[c].slept + BackoffSeconds
           /\ calls'[c].attempt = calls[c].attempt + 1
           /\ Attempts(calls'[c]) = Attempts(calls[c]) + 1

\* C15: in arun, after every failed attempt the failure is logged (its kind
\* and message), then the fixed backoff of one second is waited, then the
\* attempt counter goes up by one and the next attempt starts; no attempt
\* starts before the backoff after the previous failure has completed.
C15_BackoffBetweenAttempts ==
    /\ [](\A c \in Calls : calls[c].mode = "arun" => BackoffFollowsEveryFailure(calls[c]))
    /\ [][\A c \in Calls : AttemptStartsAfterBackoff(c)]_vars

C15_Witness ==
    \E c \in Calls :
        /\ calls[c].mode = "arun"
        /\ calls[c].pc = "awaiting"
        /\ RaisedCount(calls[c]) = 2
        /\ calls[c].slept = 2 * BackoffSeconds
        /\ Attempts(calls[c]) = 3

(***************************************************************************)
(* A failed image encoding (Spec).                                         *)
(***************************************************************************)
\* encode_image fails on an image of one of the messages.
EncodingFails(msgs) == \E j \in 1..Len(msgs) : ToOpenAIRaises(msgs[j])

\* C16: when the encoding of an image fails during rendering, the call is
\* over and no request goes to the provider. In arun the rendering comes once,
\* before the first attempt: the failure reaches the caller with no attempt
\* made, nothing waited and nothing retried. In run no request is issued.
C16_EncodingFailureSendsNothing ==
    \A c \in Calls :
        (calls[c].pc # "idle" /\ EncodingFails(calls[c].messages)) =>
            /\ calls[c].pc = "done"
            /\ calls[c].sent = <<>>
            /\ calls[c].replies = <<>>
            /\ calls[c].mode = "arun" =>
                  /\ calls[c].outcome = Raise("FileNotFoundError")
                  /\ AttemptIndices(calls[c].log) = <<>>
                  /\ calls[c].slept = 0

C16_Witness ==
    \E c \in Calls :
        /\ calls[c].mode = "arun"
        /\ calls[c].pc = "done"
        /\ Len(calls[c].messages) = 2
        /\ ~ToOpenAIRaises(calls[c].messages[1])
        /\ ToOpenAIRaises(calls[c].messages[2])
        /\ calls[c].outcome.kind = "raise"

\* The same in a blocking run: the call is over, nothing was sent.
RunEncodingFailureReached ==
    \E c \in Calls :
        /\ calls[c].mode = "run"
        /\ EncodingFails(calls[c].messages)
        /\ calls[c].sent = <<>>

(***************************************************************************)
(* The kinds of exception of the provider call (Spec).                     *)
(***************************************************************************)
\* The kinds of exception the provider call has raised in a call.
KindsRaised(cs) == {cs.replies[j].exc : j \in {i \in 1..Len(cs.replies) : cs.replies[i].raises}}

\* What follows failure j of a call, whatever its kind: its log line, and,
\* while attempts remain, the backoff and attempt j + 1; the call is over
\* after it only when it was the last attempt, and then with nothing raised.
FailureIsRetried(cs, j) ==
    /\ Len(cs.log) >= 2 * j
    /\ cs.log[2 * j].kind = "error"
    /\ cs.log[2 * j].exc = cs.replies[j].exc
    /\ j = Len(cs.replies) =>
          \/ cs.pc = "sleeping" /\ Attempts(cs) = j
          \/ cs.pc = "awaiting" /\ Attempts(cs) = j + 1 /\ j < max_retries
          \/ cs.pc = "done" /\ j = max_retries /\ cs.outcome.kind = "return"
    /\ j < Len(cs.replies) => Attempts(cs) >= j + 1

\* C17: in arun every kind of exception raised by the provider call is
\* handled the same way: it is logged, the backoff follows and, while
\* attempts remain, a further attempt; no kind of exception ends the loop
\* early or reaches the caller.
C17_EveryExceptionKindIsRetried ==
    \A c \in Calls :
        calls[c].mode = "arun" =>
            /\ \A j \in 1..Len(calls[c].replies) :
                  calls[c].replies[j].raises => FailureIsRetried(calls[c], j)
            /\ calls[c].outcome.kind = "raise" => calls[c].outcome.exc \notin ExcKinds

C17_Witness ==
    \E c \in Calls :
        /\ calls[c].mode = "arun"
        /\ calls[c].pc = "awaiting"
        /\ Len(calls[c].replies) = 2
        /\ calls[c].replies[1].exc = "AuthenticationError"
        /\ calls[c].replies[2].exc = "APITimeoutError"
        /\ Attempts(calls[c]) = 3

\* The three kinds, one after the other in one call.
AllKindsInOneCall ==
    \E c \in Calls : calls[c].mode = "arun" /\ KindsRaised(calls[c]) = ExcKinds

(***************************************************************************)
(* The calls and the output file of process_data (SpecBatch).              *)
(***************************************************************************)
\* process_data has at most one call of arun under way, and it starts none
\* while one is under way.
BatchHasOneCallAtATime ==
    /\ \A c \in Calls \ {1} : calls[c].pc = "idle"
    /\ calls[1].pc \notin {"idle", "done"} => pd.pc = "awaiting"

\* No run of process_data gets to a second call of arun: the first trial of
\* the first row always ends process_data (see BatchNeverRecordsARow), so
\* the order of the calls and of the rows of several trials is never seen.
BatchNeverStartsASecondCall ==
    /\ Len(pd.trial_log) <= 1
    /\ pd.trial_log # <<>> => pd.pc = "raised" /\ calls[1].pc = "idle"
    /\ pd.pc = "awaiting" => pd.i = 1 /\ pd.trial = 1

\* The trials process_data is to make: the selected rows, each trials times.
SelectedTrials == (1..SelectedRows) \X (1..pd.trials)

\* Trial <<i, trial>> was made and handled without raising.
TrialWentThrough(it) ==
    \E j \in 1..Len(pd.trial_log) :
        /\ pd.trial_log[j].row = it[1]
        /\ pd.trial_log[j].trial = it[2]
        /\ ExtractResponse(pd.trial_log[j].call.outcome).ok

\* C19: process_data writes the output file at most once, and only after
\* every selected row and trial was handled without raising; once the
\* handling of a trial has raised (the result of arun does not unpack, the
\* response has no fence, arun itself raised), nothing is written, the rows
\* of earlier trials included.
C19_OutputWrittenOnceAfterAllTrials ==
    /\ pd.output.writes <= 1
    /\ pd.output.written <=> pd.output.writes = 1
    /\ pd.output.written =>
          /\ pd.pc = "done"
          /\ pd.exc = "none"
          /\ \A it \in SelectedTrials : TrialWentThrough(it)
          /\ pd.output.rows = pd.new_data
    /\ (\/ pd.pc = "raised"
        \/ \E j \in 1..Len(pd.trial_log) :
              ~ExtractResponse(pd.trial_log[j].call.outcome).ok)
          => /\ ~pd.output.written
             /\ pd.output.rows = <<>>

C19_Witness ==
    /\ pd.pc = "raised"
    /\ pd.exc = "IndexError"
    /\ SelectedRows = 2
    /\ Len(pd.trial_log) = 1
    /\ pd.trial_log[1].call.outcome = Return(Str(S_Ok))
    /\ ~pd.output.written

\* The output is written when no trial is selected: the header alone.
HeaderAloneWritten ==
    /\ pd.output.written
    /\ pd.output.rows = <<OutputHeader>>
    /\ SelectedRows = 0

====
